---- MODULE Spec2Model ----
(***************************************************************************)
(* A model of the PyGEM analysis notebooks.                                *)
(*                                                                         *)
(*   analyze_regional_mcmc.ipynb  the regional MCMC statistics loop and    *)
(*                                the r-hat flagging cell                  *)
(*   analyze_mcmc.ipynb           the load cell of the single-glacier      *)
(*                                notebook                                 *)
(*   unnamed/part_000             the multi-GCM ensemble aggregation and   *)
(*                                the 20-year period averages              *)
(*                                                                         *)
(* Python values are modelled as follows.                                  *)
(*   str     a sequence of one-character strings                           *)
(*   dict    a function whose DOMAIN is the set of keys; the insertion     *)
(*           order of mcmc_stats is kept beside it as a sequence           *)
(*   float   an integer or a fraction [num, den]; where NaN can occur, a   *)
(*           record [nan, v] or [nan, num, den]                            *)
(*   raise   a result record with raised = TRUE                            *)
(* Results of library calls whose algorithm is not part of the notebooks   *)
(* (arviz.rhat, pygem.mcmc.effective_n) are kept as terms naming the call  *)
(* and its argument.                                                       *)
(***************************************************************************)
EXTENDS Integers, Sequences, FiniteSets, TLC

VARIABLES
    nb,          \* which notebook cell sequence this run executes
    pc,          \* position in the running cell
    disk,        \* the files on disk: path -> content id
    printed,     \* what the cells printed, in order
    \* analyze_regional_mcmc.ipynb, the statistics loop
    fs,          \* sorted(glob.glob(...)), the list the for loop iterates
    idx,         \* 1-based position of the for loop in fs
    glacno,      \* the variable glacno (<<>> while unbound)
    prms_dict,   \* the variable prms_dict
    glac_stats,  \* the variable glac_stats
    ki,          \* 1-based position of `for k in ks`
    mcmc_stats,  \* [keys: the keys in insertion order, val: key -> glac_stats]
    visited,     \* history: the files the for loop has bound to f, in order
    rhat_calls,  \* history: the az.rhat calls made for the current file
    origin,      \* history: key of mcmc_stats -> the file its entry was computed from
    \* the rolling average of one acceptance-rate chain
    ar_chain,    \* prms_dict['ar'][f'chain_{n}']
    rolling_ar,  \* the variable rolling_ar
    \* analyze_regional_mcmc.ipynb, the flagging cell
    glacs_check, \* the list glacs_check
    glac_ns,     \* the list glac_ns
    fk,          \* 1-based position of the loop over the four variables
    \* analyze_mcmc.ipynb, the load cell
    glac_no,     \* the float glac_no, as [reg, frac]: region and five decimals
    prms,        \* the variable prms ("unbound" while not assigned)
    \* unnamed/part_000, the ensemble aggregation and the period averages
    results,     \* the dict results: scenario -> name -> list
    year,        \* the list year (<<>> while unbound)
    si,          \* 1-based position of `for scenario in scenarios` (aggregation)
    stacked,     \* history: scenario -> variable -> [files, rows], the stacked arrays
    psi,         \* 1-based position of the scenario loop of the period cell
    period_stats, \* history: [scenario, period, runoff_avg, runoff_sig] of each line
    \* analyze_regional_mcmc.ipynb, the figure cell: the n_eff percentages
    pk,          \* 1-based position of the loop over the four variables
    n_effs,      \* the list n_effs
    labels       \* the legend labels the cell has added, in order

regVars == <<fs, idx, glacno, prms_dict, glac_stats, ki, mcmc_stats, visited, rhat_calls,
             origin>>

rollVars == <<ar_chain, rolling_ar>>

flagVars == <<glacs_check, glac_ns, fk>>

loadVars == <<glac_no, prms>>

ensVars == <<results, year, si, stacked, psi, period_stats>>

pctVars == <<pk, n_effs, labels>>

vars == <<nb, pc, disk, printed, regVars, rollVars, flagVars, loadVars, ensVars, pctVars>>

-----------------------------------------------------------------------------
(* Bounds of the model *)

\* at most this many calibration files are in the calibration directory
MaxFiles == 2

\* the number of draws of a parameter chain in a calibration file
Draws == 4

\* acceptance-rate chains have Window - ExtraLen .. Window + ExtraLen samples
ExtraLen == 2

\* at most this many glaciers are in the mcmc_stats the flagging cell reads
MaxGlaciers == 2

\* at most this many GCMs have been simulated for each scenario
MaxGcms == 2

\* at most this many glaciers are in the mcmc_stats the figure cell reads
MaxPlotted == 3

-----------------------------------------------------------------------------
(* Python dictionaries, lists and strings *)

EmptyDict == [x \in {} |-> 0]

Put(d, key, v) == [x \in (DOMAIN d) \cup {key} |-> IF x = key THEN v ELSE d[x]]

Min2(a, b) == IF a < b THEN a ELSE b

\* s[:n]
Take(s, n) == SubSeq(s, 1, Min2(n, Len(s)))

\* s[:-n]
DropLast(s, n) == SubSeq(s, 1, Len(s) - Min2(n, Len(s)))

RECURSIVE SplitFrom(_, _, _, _)
SplitFrom(s, sep, i, cur) ==
    IF i > Len(s) THEN <<cur>>
    ELSE IF s[i] = sep THEN <<cur>> \o SplitFrom(s, sep, i + 1, <<>>)
    ELSE SplitFrom(s, sep, i + 1, Append(cur, s[i]))

\* str.split(sep)
Split(s, sep) == SplitFrom(s, sep, 1, <<>>)

\* the code points of the characters that occur in the file names
Ord(c) ==
    CASE c = "-" -> 45 [] c = "." -> 46 [] c = "/" -> 47
      [] c = "0" -> 48 [] c = "1" -> 49 [] c = "2" -> 50 [] c = "3" -> 51
      [] c = "4" -> 52 [] c = "5" -> 53 [] c = "6" -> 54 [] c = "7" -> 55
      [] c = "8" -> 56 [] c = "9" -> 57 [] c = "_" -> 95
      [] c = "a" -> 97 [] c = "b" -> 98 [] c = "c" -> 99 [] c = "d" -> 100
      [] c = "e" -> 101 [] c = "g" -> 103 [] c = "i" -> 105 [] c = "j" -> 106
      [] c = "l" -> 108 [] c = "m" -> 109 [] c = "n" -> 110 [] c = "o" -> 111
      [] c = "p" -> 112 [] c = "r" -> 114 [] c = "s" -> 115 [] c = "t" -> 116

RECURSIVE StrLess(_, _)
\* a < b on Python strings
StrLess(a, b) ==
    IF b = <<>> THEN FALSE
    ELSE IF a = <<>> THEN TRUE
    ELSE IF Ord(Head(a)) # Ord(Head(b)) THEN Ord(Head(a)) < Ord(Head(b))
    ELSE StrLess(Tail(a), Tail(b))

RECURSIVE Unsorted(_)
\* the list in descending order
Unsorted(S) ==
    IF S = {} THEN <<>>
    ELSE LET m == CHOOSE x \in S : \A y \in S \ {x} : StrLess(y, x)
         IN  <<m>> \o Unsorted(S \ {m})

RECURSIVE Sorted(_)
\* sorted(S) of a set of strings
Sorted(S) ==
    IF S = {} THEN <<>>
    ELSE LET m == CHOOSE x \in S : \A y \in S \ {x} : StrLess(x, y)
         IN  <<m>> \o Sorted(S \ {m})

Range(s) == {s[i] : i \in DOMAIN s}

-----------------------------------------------------------------------------
(* numpy reductions.  A chain is a sequence of integers; a raising call    *)
(* returns [raised |-> TRUE], a returning call [raised |-> FALSE, val].    *)

\* float('nan')
NaN == [nan |-> TRUE]

\* a float that is a number, in the unit of its context
Num(v) == [nan |-> FALSE, v |-> v]

Ok(v) == [raised |-> FALSE, val |-> v]

Raise(e) == [raised |-> TRUE, val |-> e]

RECURSIVE Sum(_)
Sum(x) == IF x = <<>> THEN 0 ELSE Head(x) + Sum(Tail(x))

RECURSIVE SumSq(_)
SumSq(x) == IF x = <<>> THEN 0 ELSE Head(x) * Head(x) + SumSq(Tail(x))

RECURSIVE Insert(_, _)
Insert(v, s) ==
    IF s = <<>> THEN <<v>>
    ELSE IF v <= Head(s) THEN <<v>> \o s
    ELSE <<Head(s)>> \o Insert(v, Tail(s))

RECURSIVE SortNum(_)
SortNum(x) == IF x = <<>> THEN <<>> ELSE Insert(Head(x), SortNum(Tail(x)))

\* np.min(x): ValueError on an empty array
np_min(x) ==
    IF x = <<>> THEN Raise("ValueError")
    ELSE Ok(CHOOSE v \in Range(x) : \A w \in Range(x) : v <= w)

\* np.max(x): ValueError on an empty array
np_max(x) ==
    IF x = <<>> THEN Raise("ValueError")
    ELSE Ok(CHOOSE v \in Range(x) : \A w \in Range(x) : v >= w)

\* np.median(x), as the fraction (sum of the middle element(s)) / (1 or 2)
np_median(x) ==
    IF x = <<>> THEN Ok(NaN)
    ELSE LET s == SortNum(x)
             n == Len(x)
         IN  IF n % 2 = 1 THEN Ok([num |-> s[(n + 1) \div 2], den |-> 1])
             ELSE Ok([num |-> s[n \div 2] + s[n \div 2 + 1], den |-> 2])

\* np.mean(x), as the fraction sum / n
np_mean(x) ==
    IF x = <<>> THEN Ok(NaN) ELSE Ok([num |-> Sum(x), den |-> Len(x)])

\* np.std(x) (ddof = 0), as the fraction under the square root:
\* std^2 = (n * sum(x^2) - sum(x)^2) / n^2
np_std(x) ==
    IF x = <<>> THEN Ok(NaN)
    ELSE Ok([sqrt_num |-> Len(x) * SumSq(x) - Sum(x) * Sum(x),
             sqrt_den |-> Len(x) * Len(x)])

\* 4 * np.percentile(x, q) for q in {25, 75} (linear interpolation between the
\* two nearest ranks: position q/100 * (n - 1) in the sorted array)
Percentile4(x, q) ==
    LET s    == SortNum(x)
        pos4 == (q \div 25) * (Len(x) - 1)      \* 4 * position
        lo   == pos4 \div 4
        fr   == pos4 % 4
    IN  IF fr = 0 THEN 4 * s[lo + 1]
        ELSE (4 - fr) * s[lo + 1] + fr * s[lo + 2]

\* np.percentile(x, 75) - np.percentile(x, 25), as a fraction over 4
np_iqr(x) ==
    IF x = <<>> THEN Ok(NaN)
    ELSE Ok([num |-> Percentile4(x, 75) - Percentile4(x, 25), den |-> 4])

\* pygem.mcmc.effective_n(x): a library call; whether it raises is not decided
\* by the notebook
effective_n(x, neffRaises) ==
    IF neffRaises THEN Raise("effective_n") ELSE Ok([fn |-> "effective_n", arg |-> x])

\* the list with np.median and np.mean exchanged
stats_swapped ==
    <<"np.min", "np.max", "np.mean", "np.median", "np.std", "iqr", "effective_n">>

\* the list `stats`, by position
stats == <<"np.min", "np.max", "np.median", "np.mean", "np.std", "iqr", "effective_n">>

\* stats[i](x), i 1-based
CallStat(fn, x, neffRaises) ==
    CASE fn = "np.min"      -> np_min(x)
      [] fn = "np.max"      -> np_max(x)
      [] fn = "np.median"   -> np_median(x)
      [] fn = "np.mean"     -> np_mean(x)
      [] fn = "np.std"      -> np_std(x)
      [] fn = "iqr"         -> np_iqr(x)
      [] fn = "effective_n" -> effective_n(x, neffRaises)

stats_ks == <<"min", "max", "median", "mean", "std", "iqr", "n_eff">>

chain_ns == <<0, 1, 2>>

ks == <<"kp", "tbias", "ddfsnow", "ddfice", "mb_mwea">>

\* f'chain_{n}'
ChainKey(n) ==
    CASE n = 0 -> "chain_0" [] n = 1 -> "chain_1" [] n = 2 -> "chain_2"
      [] OTHER -> "chain_n"

\* the window of the rolling average of the acceptance rate
Window == 100

\* np.ones(100)/100, in units of 1/Window
Kernel == [i \in 1..Window |-> 1]

RECURSIVE Dot(_, _, _, _)
\* sum over m = 0 .. n-1 of a[j + m] * v[Len(v) - m]   (1-based)
Dot(a, v, j, n) ==
    IF n = 0 THEN 0
    ELSE a[j + n - 1] * v[Len(v) - (n - 1)] + Dot(a, v, j, n - 1)

\* np.convolve(a, v, mode='valid'): the arguments are swapped when v is the
\* longer one, an empty argument raises, and the result has
\* max(M, N) - min(M, N) + 1 elements
Convolve(a, v) ==
    LET aa == IF Len(v) > Len(a) THEN v ELSE a
        vv == IF Len(v) > Len(a) THEN a ELSE v
    IN  IF Len(aa) = 0 \/ Len(vv) = 0 THEN Raise("ValueError")
        ELSE Ok([j \in 1..(Len(aa) - Len(vv) + 1) |-> Dot(aa, vv, j, Len(vv))])

\* rolling_ar, in units of 1/Window
RollingAr(chain) == Convolve(chain, Kernel)

-----------------------------------------------------------------------------
(* The body of the regional statistics loop *)

RECURSIVE StatsLoop(_, _, _, _, _)
\* for i, s in enumerate(names): d[s] = stats[i](x)
StatsLoop(d, names, x, i, neffRaises) ==
    IF i > Len(names) THEN Ok(d)
    ELSE LET r == CallStat(stats[i], x, neffRaises)
         IN  IF r.raised THEN Raise(d)
             ELSE StatsLoop(Put(d, names[i], r.val), names, x, i + 1, neffRaises)

RECURSIVE ChainsLoop(_, _, _, _, _)
\* for n in chain_ns: gk[chain_n] = {}; the loop over stats_ks
\* (gk is glac_stats[k]; prms_dict[k][chain_n] raises KeyError on a missing key)
ChainsLoop(gk, pdict, k, j, neffRaises) ==
    IF j > Len(chain_ns) THEN Ok(gk)
    ELSE LET c  == ChainKey(chain_ns[j])
             g1 == Put(gk, c, EmptyDict)
         IN  IF k \notin DOMAIN pdict \/ c \notin DOMAIN pdict[k] THEN Raise(g1)
             ELSE LET r == StatsLoop(EmptyDict, stats_ks, pdict[k][c], 1, neffRaises)
                  IN  IF r.raised THEN Raise(Put(gk, c, r.val))
                      ELSE ChainsLoop(Put(gk, c, r.val), pdict, k, j + 1, neffRaises)

\* the stack with chain_0 taken three times
ChainStackFirst(pdict, k) == [j \in 1..Len(chain_ns) |-> pdict[k][ChainKey(chain_ns[1])]]

\* [prms_dict[k][f'chain_{n}'] for n in chain_ns]
ChainStack(pdict, k) == [j \in 1..Len(chain_ns) |-> pdict[k][ChainKey(chain_ns[j])]]

\* np.array(rows) of a list of lists: ValueError unless the rows have one length
IsRagged(rows) == \E i, j \in DOMAIN rows : Len(rows[i]) # Len(rows[j])

\* float(az.rhat(az.from_dict(posterior={k: chains})).to_array().values[0])
az_rhat(k, chains) == [fn |-> "az.rhat", var |-> k, arg |-> chains]

\* a pass that swallows the error of a variable and goes on to the next
VarBodySwallow(gs, pdict, k, neffRaises) ==
    LET r == ChainsLoop(EmptyDict, pdict, k, 1, neffRaises)
    IN  [raised |-> FALSE,
         val    |-> Put(gs, k, IF r.raised \/ IsRagged(ChainStack(pdict, k)) THEN r.val
                               ELSE Put(r.val, "rhat", az_rhat(k, ChainStack(pdict, k)))),
         calls  |-> IF r.raised \/ IsRagged(ChainStack(pdict, k)) THEN <<>>
                    ELSE <<[var |-> k, arg |-> ChainStack(pdict, k)]>>]

\* one pass of `for k in ks`: the chain statistics of variable k, then its r-hat.
\* val is glac_stats afterwards, calls the az.rhat calls made
VarBody(gs, pdict, k, neffRaises) ==
    LET r == ChainsLoop(EmptyDict, pdict, k, 1, neffRaises)
        g == Put(gs, k, r.val)
    IN  IF r.raised THEN [raised |-> TRUE, val |-> g, calls |-> <<>>]
        ELSE IF IsRagged(ChainStack(pdict, k))
             THEN [raised |-> TRUE, val |-> g, calls |-> <<>>]
        ELSE [raised |-> FALSE,
              val    |-> Put(gs, k, Put(r.val, "rhat", az_rhat(k, ChainStack(pdict, k)))),
              calls  |-> <<[var |-> k, arg |-> ChainStack(pdict, k)]>>]

\* stats_ks[:-2]
ar_ks == DropLast(stats_ks, 2)

RECURSIVE ArLoop(_, _, _)
\* for n in chain_ns: glac_stats['ar'][chain_n] = {}; rolling_ar; the loop over
\* stats_ks[:-2]   (ga is glac_stats['ar'])
ArLoop(ga, pdict, j) ==
    IF j > Len(chain_ns) THEN Ok(ga)
    ELSE LET c  == ChainKey(chain_ns[j])
             g1 == Put(ga, c, EmptyDict)
         IN  IF "ar" \notin DOMAIN pdict \/ c \notin DOMAIN pdict["ar"] THEN Raise(g1)
             ELSE LET roll == RollingAr(pdict["ar"][c])
                  IN  IF roll.raised THEN Raise(g1)
                      ELSE LET r == StatsLoop(EmptyDict, ar_ks, roll.val, 1, FALSE)
                           IN  IF r.raised THEN Raise(Put(ga, c, r.val))
                               ELSE ArLoop(Put(ga, c, r.val), pdict, j + 1)

\* glac_stats['ar'] = {} and the loop over the chains
ArBody(gs, pdict) ==
    LET r == ArLoop(EmptyDict, pdict, 1)
    IN  [raised |-> r.raised, val |-> Put(gs, "ar", r.val)]

-----------------------------------------------------------------------------
(* The calibration directory.  A file's content is kept on disk as the id  *)
(* of one of the contents below; FileContent gives the content itself.     *)

\* '-modelprms_dict.json'
Suffix == <<"-", "m", "o", "d", "e", "l", "p", "r", "m", "s", "_", "d", "i", "c", "t",
            ".", "j", "s", "o", "n">>

\* datpath + '/' (the root is abbreviated to its last directory, 01/)
DatPath == <<"0", "1", "/", "/">>

Path(base) == DatPath \o base \o Suffix

\* two glaciers of the RGI table
RegularNames ==
    { Path(<<"1", ".", "0", "0", "0", "1", "3">>),
      Path(<<"1", ".", "0", "0", "5", "7", "0">>) }

\* a six-digit name that shares its first five digits with the first glacier,
\* and a glacier that the RGI table does not hold
OddNames ==
    { Path(<<"1", ".", "0", "0", "0", "1", "3", "9">>),
      Path(<<"1", ".", "2", "2", "2", "2", "2">>) }

\* the files that may be in the calibration directory
FileNames == RegularNames \cup OddNames

\* rgi_glacs: the rows (glacno, Area) of the RGI table, Area in 1/100 km2
rgi_glacs ==
    << [glacno |-> <<"1", ".", "0", "0", "0", "1", "3">>, Area |-> 250],
       [glacno |-> <<"1", ".", "0", "0", "5", "7", "0">>, Area |-> 1730] >>

ChainKeys == {ChainKey(chain_ns[j]) : j \in DOMAIN chain_ns}

VarIndex(k) == CHOOSE i \in DOMAIN ks : ks[i] = k

\* a parameter chain of the given length; b tells the files apart
VarChain(b, k, c, len) ==
    [i \in 1..len |-> b + ((i * (VarIndex(k) + (IF c = "chain_0" THEN 0 ELSE
                                                 IF c = "chain_1" THEN 1 ELSE 2))) % 3)]

\* an acceptance-rate chain of the given length (1 = accepted, 0 = rejected)
ArChain(b, c, len) ==
    [i \in 1..len |->
        IF i = 2 THEN 1
        ELSE IF i > 2 /\ i < len - 1
                /\ (i + b) % ((IF c = "chain_0" THEN 2 ELSE
                               IF c = "chain_1" THEN 3 ELSE 4)) = 0 THEN 1
        ELSE 0]

\* the 'MCMC' entry of a complete calibration file
GoodPrms(b) ==
    [k \in Range(ks) \cup {"ar"} |->
        [c \in ChainKeys |->
            IF k = "ar" THEN ArChain(b, c, Window + 2) ELSE VarChain(b, k, c, Draws)]]

Without(d, key) == [x \in (DOMAIN d) \ {key} |-> d[x]]

\* the contents a calibration file may have
ContentIds ==
    {"ok1", "ok2", "notjson", "no_mcmc", "no_var", "no_chain", "ragged", "empty",
     "no_ar", "short_ar", "empty_ar"}

\* the contents tried for the files of OddNames
BasicIds == {"ok1", "ok2", "notjson"}

\* json.load of the file: parsed = FALSE when the text is not JSON
FileContent(id) ==
    CASE id = "notjson"  -> [parsed |-> FALSE]
      [] id = "no_mcmc"  -> [parsed |-> TRUE, obj |-> [emulator |-> EmptyDict]]
      [] id = "ok1"      -> [parsed |-> TRUE, obj |-> [MCMC |-> GoodPrms(1)]]
      [] id = "ok2"      -> [parsed |-> TRUE, obj |-> [MCMC |-> GoodPrms(2)]]
      [] id = "no_var"   ->
            [parsed |-> TRUE, obj |-> [MCMC |-> Without(GoodPrms(1), "ddfsnow")]]
      [] id = "no_chain" ->
            [parsed |-> TRUE, obj |-> [MCMC |->
                Put(GoodPrms(1), "tbias", Without(GoodPrms(1)["tbias"], "chain_2"))]]
      [] id = "ragged"   ->
            [parsed |-> TRUE, obj |-> [MCMC |->
                Put(GoodPrms(1), "kp",
                    Put(GoodPrms(1)["kp"], "chain_1",
                        VarChain(1, "kp", "chain_1", Draws - 1)))]]
      [] id = "empty"    ->
            [parsed |-> TRUE, obj |-> [MCMC |->
                Put(GoodPrms(1), "mb_mwea",
                    Put(GoodPrms(1)["mb_mwea"], "chain_0", <<>>))]]
      [] id = "no_ar"    ->
            [parsed |-> TRUE, obj |-> [MCMC |-> Without(GoodPrms(1), "ar")]]
      [] id = "short_ar" ->
            [parsed |-> TRUE, obj |-> [MCMC |->
                Put(GoodPrms(1), "ar",
                    [c \in ChainKeys |-> ArChain(1, c, Window - 1)])]]
      [] id = "empty_ar" ->
            [parsed |-> TRUE, obj |-> [MCMC |->
                Put(GoodPrms(1), "ar", Put(GoodPrms(1)["ar"], "chain_1", <<>>))]]

\* open(f, 'w'): the file is truncated
OpenTrunc(d, f) == [d EXCEPT ![f] = "empty"]

\* open(f, 'r'): the disk after the file has been opened for reading
OpenRead(d, f) == d

\* glob.glob(datpath + '/*-modelprms_dict.json')
Glob(d) == DOMAIN d

\* the key without the cut to five characters
ParseGlacnoWhole(f) ==
    LET parts == Split(f, "/")
        base  == parts[Len(parts)]
        two   == Take(Split(base, "."), 2)
    IN  IF Len(two) # 2 THEN Raise("ValueError")
        ELSE Ok(two[1] \o <<".">> \o two[2])

\* reg, glacno = f.split('/')[-1].split('.')[:2]; glacno = reg + '.' + glacno[:5]
\* (unpacking anything but two parts raises ValueError)
ParseGlacno(f) ==
    LET parts == Split(f, "/")
        base  == parts[Len(parts)]
        two   == Take(Split(base, "."), 2)
    IN  IF Len(two) # 2 THEN Raise("ValueError")
        ELSE Ok(two[1] \o <<".">> \o Take(two[2], 5))

\* json.load(fin)['MCMC']
LoadMCMC(d, f) ==
    LET c == FileContent(d[f])
    IN  IF ~c.parsed THEN Raise("JSONDecodeError")
        ELSE IF "MCMC" \notin DOMAIN c.obj THEN Raise("KeyError")
        ELSE Ok(c.obj["MCMC"])

\* float(rgi_glacs.loc[rgi_glacs['glacno'] == glacno, 'Area'].iloc[0])
AreaOf(g) ==
    LET rows == {i \in DOMAIN rgi_glacs : rgi_glacs[i].glacno = g}
    IN  IF rows = {} THEN Raise("IndexError")
        ELSE Ok(rgi_glacs[CHOOSE i \in rows : \A j \in rows : i <= j].Area)

\* mcmc_stats[glacno] = glac_stats
Store(ms, g, gs) ==
    [keys |-> IF g \in Range(ms.keys) THEN ms.keys ELSE Append(ms.keys, g),
     val  |-> Put(ms.val, g, gs)]

\* an except clause that keeps what was computed before the error
ExceptKeeps(ms, g, gs) == Store(ms, g, gs)

\* what the except clause does to mcmc_stats
ExceptStore(ms, g, gs) == ms

-----------------------------------------------------------------------------
(* analyze_regional_mcmc.ipynb, cell f90be3f3: the statistics loop *)

NoStats == [keys |-> <<>>, val |-> EmptyDict]

RollIdle == ar_chain = <<>> /\ rolling_ar = <<>>

FlagIdle == glacs_check = <<>> /\ glac_ns = <<>> /\ fk = 1

EnsIdle ==
    /\ results = EmptyDict /\ year = <<>> /\ si = 1 /\ stacked = EmptyDict
    /\ psi = 1 /\ period_stats = <<>>

PctIdle == pk = 1 /\ n_effs = <<>> /\ labels = <<>>

LoadIdle == glac_no = [reg |-> 0, frac |-> <<>>] /\ prms = "unbound"

RegIdle ==
    /\ fs = <<>> /\ idx = 1 /\ glacno = <<>> /\ prms_dict = EmptyDict
    /\ glac_stats = EmptyDict /\ ki = 1 /\ mcmc_stats = NoStats
    /\ visited = <<>> /\ rhat_calls = <<>> /\ origin = EmptyDict

\* the calibration directory holds at most MaxFiles of the files, each with one
\* of the contents; the cell is about to run, mcmc_stats = {}
InitRegional ==
    /\ nb = "regional"
    /\ pc = "start"
    /\ \E S \in SUBSET FileNames :
          /\ Cardinality(S) <= MaxFiles
          /\ disk \in [S -> ContentIds]
          /\ \A f \in S \cap OddNames : disk[f] \in BasicIds
    /\ printed = <<>>
    /\ RegIdle /\ RollIdle /\ FlagIdle /\ LoadIdle /\ EnsIdle /\ PctIdle

\* for f in sorted(glob.glob(datpath + '/*-modelprms_dict.json')): the list
RegStart ==
    /\ nb = "regional" /\ pc = "start"
    /\ fs' = Sorted(Glob(disk))
    /\ pc' = "for"
    /\ UNCHANGED <<rollVars, flagVars, loadVars>>
    /\ UNCHANGED <<pctVars, ensVars, nb, disk, printed, idx, glacno, prms_dict, glac_stats, ki,
                   mcmc_stats, visited, rhat_calls, origin>>

\* the for statement binds f to the next file
ForNext ==
    /\ nb = "regional" /\ pc = "for" /\ idx <= Len(fs)
    /\ visited' = Append(visited, fs[idx])
    /\ rhat_calls' = <<>>
    /\ pc' = "open"
    /\ UNCHANGED <<rollVars, flagVars, loadVars>>
    /\ UNCHANGED <<pctVars, ensVars, nb, disk, printed, fs, idx, glacno, prms_dict, glac_stats, ki,
                   mcmc_stats, origin>>

\* the for statement finds the list exhausted
ForEnd ==
    /\ nb = "regional" /\ pc = "for" /\ idx > Len(fs)
    /\ pc' = "done"
    /\ UNCHANGED <<rollVars, flagVars, loadVars>>
    /\ UNCHANGED <<pctVars, ensVars, nb, disk, printed, regVars>>

\* glacno from the file name, open, json.load(fin)['MCMC'], glac_stats = {}
TryOpen ==
    /\ nb = "regional" /\ pc = "open"
    /\ LET g == ParseGlacno(fs[idx])
       IN  IF g.raised
           THEN /\ pc' = "except"
                /\ UNCHANGED <<disk, glacno, prms_dict, glac_stats, ki>>
           ELSE /\ glacno' = g.val
                /\ disk' = OpenRead(disk, fs[idx])
                /\ LET m == LoadMCMC(disk', fs[idx])
                   IN  IF m.raised
                       THEN /\ pc' = "except"
                            /\ UNCHANGED <<prms_dict, glac_stats, ki>>
                       ELSE /\ prms_dict' = m.val
                            /\ glac_stats' = EmptyDict
                            /\ ki' = 1
                            /\ pc' = "var"
    /\ UNCHANGED <<rollVars, flagVars, loadVars>>
    /\ UNCHANGED <<pctVars, ensVars, nb, printed, fs, idx, mcmc_stats, visited, rhat_calls, origin>>

\* one pass of `for k in ks`
VarStep ==
    /\ nb = "regional" /\ pc = "var"
    /\ \E neffRaises \in BOOLEAN :
          LET r == VarBody(glac_stats, prms_dict, ks[ki], neffRaises)
          IN  /\ glac_stats' = r.val
              /\ rhat_calls' = rhat_calls \o r.calls
              /\ IF r.raised THEN pc' = "except" /\ ki' = ki
                 ELSE IF ki < Len(ks) THEN pc' = "var" /\ ki' = ki + 1
                 ELSE pc' = "ar" /\ ki' = ki
    /\ UNCHANGED <<rollVars, flagVars, loadVars>>
    /\ UNCHANGED <<pctVars, ensVars, nb, disk, printed, fs, idx, glacno, prms_dict, mcmc_stats, visited,
                   origin>>

\* the acceptance rate of each chain
ArStep ==
    /\ nb = "regional" /\ pc = "ar"
    /\ LET r == ArBody(glac_stats, prms_dict)
       IN  /\ glac_stats' = r.val
           /\ pc' = IF r.raised THEN "except" ELSE "area"
    /\ UNCHANGED <<rollVars, flagVars, loadVars>>
    /\ UNCHANGED <<pctVars, ensVars, nb, disk, printed, fs, idx, glacno, prms_dict, ki, mcmc_stats,
                   visited, rhat_calls, origin>>

\* glac_stats['area'] = ...; mcmc_stats[glacno] = glac_stats
AreaStore ==
    /\ nb = "regional" /\ pc = "area"
    /\ LET a == AreaOf(glacno)
       IN  IF a.raised
           THEN /\ pc' = "except"
                /\ UNCHANGED <<glac_stats, mcmc_stats, idx, origin>>
           ELSE /\ glac_stats' = Put(glac_stats, "area", a.val)
                /\ mcmc_stats' = Store(mcmc_stats, glacno, glac_stats')
                /\ origin' = Put(origin, glacno, fs[idx])
                /\ idx' = idx + 1
                /\ pc' = "for"
    /\ UNCHANGED <<rollVars, flagVars, loadVars>>
    /\ UNCHANGED <<pctVars, ensVars, nb, disk, printed, fs, glacno, prms_dict, ki, visited, rhat_calls>>

\* except Exception as err: print(glacno, err)
\* (an unbound glacno would raise NameError out of the cell)
Except ==
    /\ nb = "regional" /\ pc = "except"
    /\ IF glacno = <<>>
       THEN pc' = "crashed" /\ UNCHANGED <<printed, mcmc_stats, idx, origin>>
       ELSE /\ printed' = Append(printed, glacno)
            /\ mcmc_stats' = ExceptStore(mcmc_stats, glacno, glac_stats)
            /\ origin' = IF mcmc_stats' = mcmc_stats THEN origin
                          ELSE Put(origin, glacno, fs[idx])
            /\ idx' = idx + 1
            /\ pc' = "for"
    /\ UNCHANGED <<rollVars, flagVars, loadVars>>
    /\ UNCHANGED <<pctVars, ensVars, nb, disk, fs, glacno, prms_dict, glac_stats, ki, visited, rhat_calls>>

NextRegional ==
    \/ RegStart
    \/ ForNext
    \/ ForEnd
    \/ TryOpen
    \/ VarStep
    \/ ArStep
    \/ AreaStore
    \/ Except

-----------------------------------------------------------------------------
(* analyze_regional_mcmc.ipynb, cell f90be3f3: rolling_ar of one chain *)

RollLens == {0} \cup ((Window - ExtraLen)..(Window + ExtraLen))

\* one acceptance-rate chain of a calibration file is about to be averaged
InitRolling ==
    /\ nb = "rolling"
    /\ pc = "convolve"
    /\ disk = EmptyDict
    /\ printed = <<>>
    /\ \E b \in 1..2, c \in ChainKeys, len \in RollLens : ar_chain = ArChain(b, c, len)
    /\ rolling_ar = <<>>
    /\ RegIdle /\ FlagIdle /\ LoadIdle /\ EnsIdle /\ PctIdle

\* rolling_ar = np.convolve(np.array(prms_dict['ar'][chain]), np.ones(100)/100,
\*                          mode='valid')
Roll ==
    /\ nb = "rolling" /\ pc = "convolve"
    /\ LET r == RollingAr(ar_chain)
       IN  IF r.raised THEN pc' = "raised" /\ rolling_ar' = rolling_ar
           ELSE pc' = "rolled" /\ rolling_ar' = r.val
    /\ UNCHANGED <<pctVars, ensVars, nb, disk, printed, ar_chain, regVars, flagVars, loadVars>>

-----------------------------------------------------------------------------
(* analyze_regional_mcmc.ipynb, cell 72cc8d06: the glaciers with r-hat > 1.1 *)

\* 1.1, in tenths
RhatLimit == 11

\* an r-hat that counts as exceeding even when it is NaN
ExceedsOrNaN(v) == v.nan \/ v.v > RhatLimit

\* rhat > 1.1 (a comparison with NaN is False)
Exceeds(v) == ~v.nan /\ v.v > RhatLimit

\* a loop over all five variables of ks
flag_ks_all == <<"mb_mwea", "kp", "tbias", "ddfsnow", "ddfice">>

\* the list the cell loops over
flag_ks == <<"mb_mwea", "kp", "tbias", "ddfsnow">>

DigitChar(i) ==
    CASE i = 0 -> "0" [] i = 1 -> "1" [] i = 2 -> "2" [] i = 3 -> "3" [] i = 4 -> "4"
      [] i = 5 -> "5" [] i = 6 -> "6" [] i = 7 -> "7" [] i = 8 -> "8" [] OTHER -> "9"

\* the key of the i-th glacier of mcmc_stats
GlacierKey(i) == <<"1", ".", "0", "0", "0", "1", DigitChar(i)>>

\* the r-hats (in tenths) of one glacier: 1.2 for the variables of hi, NaN for
\* those of nan, and low for the others
RhatProfile(hi, nan, low) ==
    [k \in Range(ks) |->
        [rhat |-> IF k \in hi THEN Num(12) ELSE IF k \in nan THEN NaN ELSE Num(low)]]

RhatProfiles ==
    {RhatProfile({}, {}, 10), RhatProfile({}, {}, 11)}
    \cup {RhatProfile({k}, {}, 10) : k \in Range(ks)}
    \cup {RhatProfile({}, {"kp"}, 10), RhatProfile({"ddfice"}, {"tbias"}, 10),
          RhatProfile({"mb_mwea", "ddfsnow"}, {}, 10)}

\* the statistics loop has left up to MaxGlaciers glaciers in mcmc_stats
InitFlag ==
    /\ nb = "flag"
    /\ pc = "flagstart"
    /\ disk = EmptyDict
    /\ printed = <<>>
    /\ \E n \in 0..MaxGlaciers :
          \E v \in [{GlacierKey(i) : i \in 1..n} -> RhatProfiles] :
             mcmc_stats = [keys |-> [i \in 1..n |-> GlacierKey(i)], val |-> v]
    /\ fs = <<>> /\ idx = 1 /\ glacno = <<>> /\ prms_dict = EmptyDict
    /\ glac_stats = EmptyDict /\ ki = 1
    /\ visited = <<>> /\ rhat_calls = <<>> /\ origin = EmptyDict
    /\ RollIdle /\ FlagIdle /\ LoadIdle /\ EnsIdle /\ PctIdle

\* glacs_check = []; glac_ns = list(mcmc_stats.keys())
FlagStart ==
    /\ nb = "flag" /\ pc = "flagstart"
    /\ glacs_check' = <<>>
    /\ glac_ns' = mcmc_stats.keys
    /\ fk' = 1
    /\ pc' = "flagloop"
    /\ UNCHANGED <<pctVars, ensVars, nb, disk, printed, regVars, rollVars, loadVars>>

RECURSIVE AppendMasked(_, _, _, _)
\* for j in mask: if glac_ns[j] not in glacs_check: glacs_check.append(glac_ns[j])
\* (mask = np.where(np.array(rhats) > 1.1)[0], the exceeding positions ascending)
AppendMasked(check, names, rhats, j) ==
    IF j > Len(rhats) THEN check
    ELSE IF Exceeds(rhats[j]) /\ names[j] \notin Range(check)
         THEN AppendMasked(Append(check, names[j]), names, rhats, j + 1)
         ELSE AppendMasked(check, names, rhats, j + 1)

\* rhats = [mcmc_stats[g][k]['rhat'] for g in mcmc_stats.keys()]
RhatList(ms, k) == [i \in 1..Len(ms.keys) |-> ms.val[ms.keys[i]][k]["rhat"]]

\* one pass of the loop over the four variables
FlagVar ==
    /\ nb = "flag" /\ pc = "flagloop" /\ fk <= Len(flag_ks)
    /\ glacs_check' = AppendMasked(glacs_check, glac_ns, RhatList(mcmc_stats, flag_ks[fk]), 1)
    /\ fk' = fk + 1
    /\ UNCHANGED <<pctVars, ensVars, nb, pc, disk, printed, glac_ns, regVars, rollVars, loadVars>>

FlagEnd ==
    /\ nb = "flag" /\ pc = "flagloop" /\ fk > Len(flag_ks)
    /\ pc' = "done"
    /\ UNCHANGED <<pctVars, ensVars, nb, disk, printed, flagVars, regVars, rollVars, loadVars>>

-----------------------------------------------------------------------------
(* analyze_mcmc.ipynb: the load cell *)

\* the glaciers tried for glac_no: 1.15645 (the notebook's), 1.00570, 1.10000
GlacNos ==
    { [reg |-> 1, frac |-> <<"1", "5", "6", "4", "5">>],
      [reg |-> 1, frac |-> <<"0", "0", "5", "7", "0">>],
      [reg |-> 1, frac |-> <<"1", "0", "0", "0", "0">>] }

RECURSIVE StripZeros(_)
\* the decimals of a float without their trailing zeros
StripZeros(d) ==
    IF d = <<>> THEN <<>>
    ELSE IF d[Len(d)] = "0" THEN StripZeros(SubSeq(d, 1, Len(d) - 1))
    ELSE d

\* str(glac_no) and f'{glac_no}' of a float: the shortest decimal that reads
\* back as the same float
FloatStr(g) ==
    <<DigitChar(g.reg)>> \o <<".">>
       \o (IF StripZeros(g.frac) = <<>> THEN <<"0">> ELSE StripZeros(g.frac))

\* s.zfill(2)
Zfill2(s) == IF Len(s) < 2 THEN <<"0">> \o s ELSE s

\* prms_path (the root is left out)
PrmsPath(g) ==
    Zfill2(Split(FloatStr(g), ".")[1]) \o <<"/">> \o FloatStr(g) \o Suffix

\* the file the calibration writes for the glacier: the region directory and
\* the glacier number with its five decimals, as the statistics loop parses it
CalibrationFile(g) ==
    Zfill2(<<DigitChar(g.reg)>>) \o <<"/">> \o <<DigitChar(g.reg)>> \o <<".">> \o g.frac
       \o Suffix

LoadIds == {"ok1", "no_mcmc", "notjson"}

\* the calibration of the glacier has not been run, or has left its file
InitLoad ==
    /\ nb = "load"
    /\ pc = "load"
    /\ printed = <<>>
    /\ glac_no \in GlacNos
    /\ prms = "unbound"
    /\ \/ disk = EmptyDict
       \/ \E id \in LoadIds : disk = [f \in {CalibrationFile(glac_no)} |-> id]
    /\ RegIdle /\ RollIdle /\ FlagIdle /\ EnsIdle /\ PctIdle

\* the whole cell: os.path.isfile, open, json.load, the three prints
LoadCell ==
    /\ nb = "load" /\ pc = "load"
    /\ LET path == PrmsPath(glac_no)
       IN  IF path \in DOMAIN disk
           THEN /\ disk' = OpenRead(disk, path)
                /\ LET c == FileContent(disk'[path])
                   IN  IF ~c.parsed
                       THEN pc' = "raised" /\ UNCHANGED <<prms, printed>>
                       ELSE /\ prms' = c.obj
                            /\ printed' = Append(printed,
                                  IF "MCMC" \in DOMAIN c.obj THEN "proceed"
                                  ELSE "warning: MCMC calibration parameters not found")
                            /\ pc' = "done"
           ELSE /\ printed' = Append(printed,
                                     "warning: calibration parameter data does not exist")
                /\ pc' = "done"
                /\ UNCHANGED <<disk, prms>>
    /\ UNCHANGED <<pctVars, ensVars, nb, glac_no, regVars, rollVars, flagVars>>

-----------------------------------------------------------------------------
(* unnamed/part_000: the multi-GCM ensemble of one glacier.  Runoff is in   *)
(* units of 10^6 m3, so that round(1e-9 * x, 3) rounds x to an integer.     *)

\* glac_no = 1.16201
EnsGlacNo == [reg |-> 1, frac |-> <<"1", "6", "2", "0", "1">>]

\* scenarios = ['ssp245', 'ssp370', 'ssp585']
scenarios ==
    << <<"s", "s", "p", "2", "4", "5">>,
       <<"s", "s", "p", "3", "7", "0">>,
       <<"s", "s", "p", "5", "8", "5">> >>

\* run_simulation ... -gcm_startyear 2000 -gcm_endyear 2100
StartYear == 2000

EndYear == 2100

\* the number of whole calendar years of a simulation
SimYears == EndYear - StartYear + 1

\* the directory name of the g-th GCM
GcmName(g) == <<"g", "c", "m", DigitChar(g)>>

\* the directories below simdir of the glacier's region
RegionDir == Zfill2(Split(FloatStr(EnsGlacNo), ".")[1])

StatsDir == <<"s", "t", "a", "t", "s">>

BinnedDir == <<"b", "i", "n", "n", "e", "d">>

NcExt == <<".", "n", "c">>

\* the output file run_simulation leaves in directory dir for GCM g, scenario s
OutPath(g, s, dir) ==
    RegionDir \o <<"/">> \o GcmName(g) \o <<"/">> \o scenarios[s] \o <<"/">> \o dir
       \o <<"/">> \o FloatStr(EnsGlacNo) \o <<"_">> \o GcmName(g) \o NcExt

SimPath(g, s) == OutPath(g, s, StatsDir)

BinnedPath(g, s) == OutPath(g, s, BinnedDir)

StartsWith(s, pre) == Len(s) >= Len(pre) /\ SubSeq(s, 1, Len(pre)) = pre

EndsWith(s, suf) ==
    Len(s) >= Len(suf) /\ SubSeq(s, Len(s) - Len(suf) + 1, Len(s)) = suf

\* glob without the scenario directory in the pattern
SimGlobAnyScenario(d, scenario) ==
    { f \in DOMAIN d :
        LET parts == Split(f, "/")
        IN  /\ Len(parts) = 5
            /\ parts[1] = RegionDir
            /\ parts[4] = StatsDir
            /\ StartsWith(parts[5], FloatStr(EnsGlacNo))
            /\ EndsWith(parts[5], NcExt) }

\* glob.glob(simdir + f"/{reg}/*/{scenario}/stats/{glac_no}*.nc")
SimGlob(d, scenario) ==
    { f \in DOMAIN d :
        LET parts == Split(f, "/")
        IN  /\ Len(parts) = 5
            /\ parts[1] = RegionDir
            /\ parts[3] = scenario
            /\ parts[4] = StatsDir
            /\ StartsWith(parts[5], FloatStr(EnsGlacNo))
            /\ EndsWith(parts[5], NcExt) }

\* the content of an output file: what the simulation of GCM gcm and scenario
\* sc wrote; gaps = TRUE when the file holds NaN values
SimOutput(g, s, gaps) == [nc |-> "stats", gcm |-> g, sc |-> s, gaps |-> gaps]

BinnedOutput(g, s) == [nc |-> "binned", gcm |-> g, sc |-> s, gaps |-> FALSE]

\* xr.open_dataset(f): the file is read, not changed
OpenDataset(d, f) == d[f]

\* the t-th value of ds['glac_runoff_monthly'][0]
RunoffMonth(c, t) ==
    LET y == (t - 1) \div 12
        m == ((t - 1) % 12) + 1
    IN  IF c.gaps /\ m = 1 /\ y % 10 = 3 THEN NaN
        ELSE IF m <= ((y * (c.gcm + 1) + c.sc) % 5) + (y \div 25) THEN Num(1)
        ELSE Num(0)

\* ds['glac_runoff_monthly'][0]: twelve values for each calendar year
\* StartYear..EndYear, January first
glac_runoff_monthly(c) == [t \in 1..(12 * SimYears) |-> RunoffMonth(c, t)]

\* the j-th value of ds['glac_area_annual'][0]
AreaYear(c, j) ==
    IF c.gaps /\ j > SimYears - 1 THEN NaN
    ELSE Num(300 - 2 * j - ((j * c.gcm) % 3) - c.sc)

\* ds['glac_area_annual'][0]: the area at the beginning of each model year
\* and at the end of the last one
glac_area_annual(c) == [j \in 1..(SimYears + 1) |-> AreaYear(c, j)]

\* the j-th value of ds['glac_mass_annual'][0]
MassYear(c, j) ==
    IF c.gaps /\ j > SimYears - 1 THEN NaN
    ELSE Num(900 - 5 * j - ((j * c.sc) % 4) - 7 * c.gcm)

\* ds['glac_mass_annual'][0]
glac_mass_annual(c) == [j \in 1..(SimYears + 1) |-> MassYear(c, j)]

\* ds.year: the years the annual values belong to
ds_year(c) == [j \in 1..(SimYears + 1) |-> StartYear + j - 1]

\* the numbers of a list of floats, its NaN left out
NonNaN(col) ==
    LET sel == SelectSeq(col, LAMBDA v : ~v.nan)
    IN  [j \in 1..Len(sel) |-> sel[j].v]

\* ds.resample(time='YE').sum('time'): the sum of the values of each calendar
\* year; NaN is skipped (skipna), a year of NaN only sums to 0
ResampleYE(monthly) ==
    [i \in 1..(Len(monthly) \div 12) |->
        Num(Sum(NonNaN(SubSeq(monthly, 12 * (i - 1) + 1, 12 * i))))]

\* np.vstack(rows): ValueError without rows or with rows of unequal length
np_vstack(rows) ==
    IF rows = <<>> THEN Raise("ValueError")
    ELSE IF \E r \in DOMAIN rows : Len(rows[r]) # Len(rows[1]) THEN Raise("ValueError")
    ELSE Ok(rows)

Column(m, i) == [r \in 1..Len(m) |-> m[r][i]]

\* np.nanmean of a column, as the fraction sum / count of its numbers; NaN
\* (and a RuntimeWarning) when the column has no number
np_nanmean(col) ==
    IF NonNaN(col) = <<>> THEN NaN
    ELSE [nan |-> FALSE, num |-> Sum(NonNaN(col)), den |-> Len(NonNaN(col))]

\* np.nanstd of a column (ddof = 0), as the fraction under the square root
np_nanstd(col) ==
    LET x == NonNaN(col)
    IN  IF x = <<>> THEN NaN
        ELSE [nan |-> FALSE, sqrt_num |-> Len(x) * SumSq(x) - Sum(x) * Sum(x),
              sqrt_den |-> Len(x) * Len(x)]

\* np.nanmin of a column
np_nanmin(col) ==
    IF NonNaN(col) = <<>> THEN NaN ELSE Num(np_min(NonNaN(col)).val)

\* np.nanmax of a column
np_nanmax(col) ==
    IF NonNaN(col) = <<>> THEN NaN ELSE Num(np_max(NonNaN(col)).val)

\* the names under which the statistics of a variable are stored
ResultKey ==
    [runoff |-> [mean |-> "mean_runoff", std |-> "std_runoff",
                 min |-> "min_runoff", max |-> "max_runoff"],
     area   |-> [mean |-> "mean_area", std |-> "std_area",
                 min |-> "min_area", max |-> "max_area"],
     mass   |-> [mean |-> "mean_mass", std |-> "std_mass",
                 min |-> "min_mass", max |-> "max_mass"]]

\* results[scenario]['mean_x'] = np.nanmean(stacked, axis=0).tolist() and the
\* same for std, min, max
PutStats(d, var, m) ==
    LET n == Len(m[1])
        k == ResultKey[var]
    IN  Put(Put(Put(Put(d,
            k.mean, [i \in 1..n |-> np_nanmean(Column(m, i))]),
            k.std,  [i \in 1..n |-> np_nanstd(Column(m, i))]),
            k.min,  [i \in 1..n |-> np_nanmin(Column(m, i))]),
            k.max,  [i \in 1..n |-> np_nanmax(Column(m, i))])

\* annual_runoff: for f in sorted(fns): append ds_sum.values.tolist()
AnnualRunoff(d, files) ==
    [r \in 1..Len(files) |-> ResampleYE(glac_runoff_monthly(OpenDataset(d, files[r])))]

\* the annual areas without the last value instead of without the first
AnnualAreaFromStart(d, files) ==
    [r \in 1..Len(files) |-> DropLast(glac_area_annual(OpenDataset(d, files[r])), 1)]

\* annual_area: for f in sorted(fns): append ds.values[1:].tolist()
AnnualArea(d, files) ==
    [r \in 1..Len(files) |-> Tail(glac_area_annual(OpenDataset(d, files[r])))]

\* annual_mass: for f in sorted(fns): append ds.values[1:].tolist()
AnnualMass(d, files) ==
    [r \in 1..Len(files) |-> Tail(glac_mass_annual(OpenDataset(d, files[r])))]

\* year = (ds.year.values[:-1:]).tolist() of the last file of the mass loop;
\* year keeps its value when the loop has no file
YearAfter(d, files, yr) ==
    IF files = <<>> THEN yr
    ELSE DropLast(ds_year(OpenDataset(d, files[Len(files)])), 1)

\* one pass of the body of `for scenario in scenarios`, from
\* results[scenario] = {} to the statistics of the mass: the dict stored under
\* the scenario, the stacked arrays, year, and whether np.vstack raised
ScenarioBody(d, scenario, yr) ==
    LET fns       == SimGlob(d, scenario)
        files     == Sorted(fns)
        ro        == np_vstack(AnnualRunoff(d, Sorted(fns)))
        ar        == np_vstack(AnnualArea(d, Sorted(fns)))
        ma        == np_vstack(AnnualMass(d, Sorted(fns)))
        no_stack  == [files |-> <<>>, rows |-> <<>>]
    IN  IF ro.raised
        THEN [raised |-> TRUE, dict |-> EmptyDict, year |-> yr,
              stacked |-> [runoff |-> no_stack, area |-> no_stack, mass |-> no_stack]]
        ELSE IF ar.raised
        THEN [raised |-> TRUE, dict |-> PutStats(EmptyDict, "runoff", ro.val),
              year |-> yr,
              stacked |-> [runoff |-> [files |-> files, rows |-> ro.val],
                           area |-> no_stack, mass |-> no_stack]]
        ELSE IF ma.raised
        THEN [raised |-> TRUE,
              dict |-> PutStats(PutStats(EmptyDict, "runoff", ro.val), "area", ar.val),
              year |-> YearAfter(d, files, yr),
              stacked |-> [runoff |-> [files |-> files, rows |-> ro.val],
                           area |-> [files |-> files, rows |-> ar.val],
                           mass |-> no_stack]]
        ELSE [raised |-> FALSE,
              dict |-> PutStats(PutStats(PutStats(EmptyDict, "runoff", ro.val),
                                         "area", ar.val), "mass", ma.val),
              year |-> YearAfter(d, files, yr),
              stacked |-> [runoff |-> [files |-> files, rows |-> ro.val],
                           area |-> [files |-> files, rows |-> ar.val],
                           mass |-> [files |-> files, rows |-> ma.val]]]

\* the directories of one scenario after the simulations: the runs of the first
\* n GCMs have left their stats and binned files; with gaps the file of the
\* first GCM holds NaN values
ScenarioFiles(s, n, gaps) ==
    [f \in {SimPath(g, s) : g \in 1..n} \cup {BinnedPath(g, s) : g \in 1..n} |->
        LET g == CHOOSE h \in 1..n : f \in {SimPath(h, s), BinnedPath(h, s)}
        IN  IF f = SimPath(g, s) THEN SimOutput(g, s, gaps /\ g = 1)
            ELSE BinnedOutput(g, s)]

\* the union of dicts with disjoint keys
Merge(a, b) == [f \in DOMAIN a \cup DOMAIN b |-> IF f \in DOMAIN a THEN a[f] ELSE b[f]]

\* the aggregation cell is about to run, results = {}
InitEnsemble ==
    /\ nb = "ensemble"
    /\ pc = "aggregate"
    /\ printed = <<>>
    /\ \E n \in [1..Len(scenarios) -> 0..MaxGcms], gaps \in [1..Len(scenarios) -> BOOLEAN] :
          /\ \A s \in 1..Len(scenarios) : n[s] = 0 => ~gaps[s]
          /\ disk = Merge(Merge(ScenarioFiles(1, n[1], gaps[1]),
                                ScenarioFiles(2, n[2], gaps[2])),
                          ScenarioFiles(3, n[3], gaps[3]))
    /\ results = EmptyDict /\ year = <<>> /\ si = 1 /\ stacked = EmptyDict
    /\ psi = 1 /\ period_stats = <<>>
    /\ RegIdle /\ RollIdle /\ FlagIdle /\ LoadIdle /\ PctIdle

\* one scenario of the aggregation cell
AggScenario ==
    /\ nb = "ensemble" /\ pc = "aggregate" /\ si <= Len(scenarios)
    /\ LET b == ScenarioBody(disk, scenarios[si], year)
       IN  /\ results' = Put(results, scenarios[si], b.dict)
           /\ stacked' = Put(stacked, scenarios[si], b.stacked)
           /\ year' = b.year
           /\ IF b.raised THEN pc' = "periods" /\ si' = si
              ELSE pc' = pc /\ si' = si + 1
    /\ UNCHANGED <<nb, disk, printed, psi, period_stats>>
    /\ UNCHANGED <<regVars, rollVars, flagVars, loadVars, pctVars>>

\* the scenarios are exhausted: the aggregation cell has run
AggEnd ==
    /\ nb = "ensemble" /\ pc = "aggregate" /\ si > Len(scenarios)
    /\ pc' = "periods"
    /\ UNCHANGED <<nb, disk, printed, ensVars, regVars, rollVars, flagVars, loadVars, pctVars>>

\* periods = [(2001,2020),(2021,2040),(2041,2060),(2061,2080),(2081,2100)]
periods ==
    << <<2001, 2020>>, <<2021, 2040>>, <<2041, 2060>>, <<2061, 2080>>, <<2081, 2100>> >>

\* lst.index(val), 0-based: ValueError when val is not in the list
PyIndex(lst, val) ==
    IF \E i \in DOMAIN lst : lst[i] = val
    THEN Ok((CHOOSE i \in DOMAIN lst : lst[i] = val /\ \A j \in 1..(i - 1) : lst[j] # val) - 1)
    ELSE Raise("ValueError")

\* lst[a:b] for 0 <= a, 0 <= b
PySlice(lst, a, b) == SubSeq(lst, a + 1, Min2(b, Len(lst)))

\* the slice without its last year
PeriodSliceOpen(lst, inds) == PySlice(lst, inds[1], inds[2])

\* results[scenario]['mean_runoff'][inds[0]:inds[1]+1]
PeriodSlice(lst, inds) == PySlice(lst, inds[1], inds[2] + 1)

RECURSIVE GCD(_, _)
GCD(a, b) == IF b = 0 THEN a ELSE GCD(b, a % b)

\* the fraction n / d (d > 0) in lowest terms
Frac(n, d) ==
    LET g == GCD(IF n < 0 THEN -n ELSE n, d)
    IN  [nan |-> FALSE, num |-> n \div g, den |-> d \div g]

FracAdd(a, b) == Frac(a.num * b.den + b.num * a.den, a.den * b.den)

FracMul(a, b) == Frac(a.num * b.num, a.den * b.den)

RECURSIVE FracSum(_)
FracSum(x) == IF x = <<>> THEN Frac(0, 1) ELSE FracAdd(Head(x), FracSum(Tail(x)))

RECURSIVE FracSumSq(_)
FracSumSq(x) ==
    IF x = <<>> THEN Frac(0, 1)
    ELSE FracAdd(FracMul(Head(x), Head(x)), FracSumSq(Tail(x)))

\* np.mean of a list of floats: NaN for the empty list and with NaN in it
ListMean(x) ==
    IF x = <<>> \/ \E i \in DOMAIN x : x[i].nan THEN NaN
    ELSE FracMul(FracSum(x), Frac(1, Len(x)))

\* np.std of a list of floats (ddof = 0), as the fraction under the square
\* root: mean(x^2) - mean(x)^2
ListStd(x) ==
    IF x = <<>> \/ \E i \in DOMAIN x : x[i].nan THEN NaN
    ELSE LET m  == FracMul(FracSum(x), Frac(1, Len(x)))
             m2 == FracMul(FracSumSq(x), Frac(1, Len(x)))
             v  == FracAdd(m2, FracMul(Frac(-1, 1), FracMul(m, m)))
         IN  [nan |-> FALSE, sqrt_num |-> v.num, sqrt_den |-> v.den]

\* round(1e-9 * x, 3) of a non-negative fraction of 10^6 m3, in 10^-3 km3:
\* to the nearest integer, a tie to the even one
RoundAvg(a) ==
    IF a.nan THEN NaN
    ELSE LET q == a.num \div a.den
             r == a.num % a.den
         IN  IF 2 * r < a.den THEN Num(q)
             ELSE IF 2 * r > a.den THEN Num(q + 1)
             ELSE IF q % 2 = 0 THEN Num(q) ELSE Num(q + 1)

\* round(1e-9 * x, 3) of the square root of a fraction: the integer r with
\* (r - 1/2)^2 <= num / den < (r + 1/2)^2
RoundSig(s) ==
    IF s.nan THEN NaN
    ELSE Num(CHOOSE r \in 0..(s.sqrt_num \div s.sqrt_den + 1) :
                /\ (r = 0 \/ (2 * r - 1) * (2 * r - 1) * s.sqrt_den <= 4 * s.sqrt_num)
                /\ 4 * s.sqrt_num < (2 * r + 1) * (2 * r + 1) * s.sqrt_den)

RECURSIVE PeriodLoop(_, _, _, _, _)
\* for period in periods: inds, runoff_avg, runoff_sig, print(...), from the
\* j-th period on; out = [raised, lines, stats]
PeriodLoop(res, yr, scenario, j, out) ==
    IF j > Len(periods) THEN out
    ELSE LET i0 == PyIndex(yr, periods[j][1])
             i1 == PyIndex(yr, periods[j][2])
         IN  IF i0.raised \/ i1.raised THEN [out EXCEPT !.raised = TRUE]
             ELSE IF scenario \notin DOMAIN res THEN [out EXCEPT !.raised = TRUE]
             ELSE IF "mean_runoff" \notin DOMAIN res[scenario]
             THEN [out EXCEPT !.raised = TRUE]
             ELSE LET x   == PeriodSlice(res[scenario]["mean_runoff"], <<i0.val, i1.val>>)
                      avg == ListMean(x)
                      sig == ListStd(x)
                  IN  PeriodLoop(res, yr, scenario, j + 1,
                         [raised |-> FALSE,
                          lines  |-> Append(out.lines,
                                       [period |-> periods[j], avg |-> RoundAvg(avg),
                                        sig |-> RoundSig(sig)]),
                          stats  |-> Append(out.stats,
                                       [scenario |-> scenario, period |-> periods[j],
                                        runoff_avg |-> avg, runoff_sig |-> sig])])

\* one scenario of the period cell: print(scenario), then the periods; run
\* after the aggregation cell has ended, whether or not it raised
PeriodsScenario ==
    /\ nb = "ensemble" /\ pc = "periods" /\ psi <= Len(scenarios)
    /\ LET out == PeriodLoop(results, year, scenarios[psi], 1,
                             [raised |-> FALSE, lines |-> <<>>, stats |-> <<>>])
       IN  /\ printed' = printed \o <<scenarios[psi]>> \o out.lines
           /\ period_stats' = period_stats \o out.stats
           /\ IF out.raised THEN pc' = "raised" /\ psi' = psi
              ELSE pc' = pc /\ psi' = psi + 1
    /\ UNCHANGED <<nb, disk, results, year, si, stacked>>
    /\ UNCHANGED <<regVars, rollVars, flagVars, loadVars, pctVars>>

\* the scenarios are exhausted: the period cell has run
PeriodsEnd ==
    /\ nb = "ensemble" /\ pc = "periods" /\ psi > Len(scenarios)
    /\ pc' = "done"
    /\ UNCHANGED <<nb, disk, printed, ensVars, regVars, rollVars, flagVars, loadVars, pctVars>>

-----------------------------------------------------------------------------
(* analyze_regional_mcmc.ipynb, cell of the convergence figure: the share   *)
(* of glaciers with an effective sample size of 100 or more                 *)

\* the n_eff of chain_0, chain_1, chain_2 tried for a variable of a glacier
NeffTriples ==
    << <<Num(160), Num(160), Num(160)>>,
       <<Num(100), Num(100), Num(100)>>,
       <<Num(40), Num(100), Num(160)>>,
       <<Num(40), Num(100), Num(159)>>,
       <<NaN, Num(160), Num(40)>>,
       <<NaN, NaN, NaN>> >>

\* the entry of a glacier in mcmc_stats, as far as the cell reads it; p tells
\* the glaciers apart and gives each variable another triple
NeffRecord(p) ==
    [k \in Range(ks) \cup {"area"} |->
        IF k = "area" THEN 100 * p
        ELSE [c \in ChainKeys \cup {"rhat"} |->
                IF c = "rhat" THEN Num(10)
                ELSE [n_eff |-> NeffTriples[((p + VarIndex(k)) % Len(NeffTriples)) + 1]
                                           [IF c = "chain_0" THEN 1
                                            ELSE IF c = "chain_1" THEN 2 ELSE 3]]]]

\* the statistics loop has left up to MaxPlotted glaciers in mcmc_stats
InitPct ==
    /\ nb = "pct"
    /\ pc = "pctloop"
    /\ disk = EmptyDict
    /\ printed = <<>>
    /\ \E n \in 0..MaxPlotted :
          \E p \in [1..n -> 1..Len(NeffTriples)] :
             mcmc_stats = [keys |-> [i \in 1..n |-> GlacierKey(i)],
                           val  |-> [g \in {GlacierKey(i) : i \in 1..n} |->
                                       NeffRecord(p[CHOOSE i \in 1..n : GlacierKey(i) = g])]]
    /\ fs = <<>> /\ idx = 1 /\ glacno = <<>> /\ prms_dict = EmptyDict
    /\ glac_stats = EmptyDict /\ ki = 1
    /\ visited = <<>> /\ rhat_calls = <<>> /\ origin = EmptyDict
    /\ RollIdle /\ FlagIdle /\ LoadIdle /\ EnsIdle /\ PctIdle

\* the effective sample size asked for
NeffLimit == 100

\* the comparison with > in place of >=
Above(m) == ~m.nan /\ m.num > NeffLimit * m.den

\* n_eff >= 100 for a float given as NaN or as a fraction: NaN compares False
AtLeast(m) == ~m.nan /\ m.num >= NeffLimit * m.den

\* n_effs = [np.nanmean([mcmc_stats[g][k][f'chain_{n}']['n_eff'] for n in [0,1,2]])
\*           for g in mcmc_stats.keys()]
NeffList(ms, k) ==
    [i \in 1..Len(ms.keys) |->
        np_nanmean([j \in 1..3 |-> ms.val[ms.keys[i]][k][ChainKey(j - 1)]["n_eff"]])]

\* np.count_nonzero(np.asarray(n_effs) >= 100)
CountAtLeast(x) == Cardinality({i \in DOMAIN x : AtLeast(x[i])})

\* int(round(100 * (count / len(n_effs)))): ZeroDivisionError for an empty list
Pct(x) ==
    IF Len(x) = 0 THEN Raise("ZeroDivisionError")
    ELSE Ok(RoundAvg(Frac(100 * CountAtLeast(x), Len(x))).v)

\* one pass of `for i, k in enumerate(['mb_mwea','kp','tbias','ddfsnow'])`:
\* the scatter plots, n_effs, pct and the label of axes[i+4]
PctVar ==
    /\ nb = "pct" /\ pc = "pctloop" /\ pk <= Len(flag_ks)
    /\ n_effs' = NeffList(mcmc_stats, flag_ks[pk])
    /\ LET r == Pct(n_effs')
       IN  IF r.raised THEN pc' = "raised" /\ UNCHANGED <<pk, labels>>
           ELSE /\ labels' = Append(labels, [axis |-> (pk - 1) + 4, k |-> flag_ks[pk],
                                             pct |-> r.val])
                /\ pk' = pk + 1
                /\ pc' = pc
    /\ UNCHANGED <<nb, disk, printed, regVars, rollVars, flagVars, loadVars, ensVars>>

\* after the loop: the acceptance rates and the label N=len(mcmc_stats.keys())
PctEnd ==
    /\ nb = "pct" /\ pc = "pctloop" /\ pk > Len(flag_ks)
    /\ labels' = Append(labels, [axis |-> 0, N |-> Len(mcmc_stats.keys)])
    /\ pc' = "done"
    /\ UNCHANGED <<nb, disk, printed, pk, n_effs, regVars, rollVars, flagVars, loadVars,
                   ensVars>>

-----------------------------------------------------------------------------
Init == InitRegional \/ InitRolling \/ InitFlag \/ InitLoad \/ InitEnsemble \/ InitPct

Next ==
    \/ NextRegional
    \/ Roll
    \/ FlagStart
    \/ FlagVar
    \/ FlagEnd
    \/ LoadCell
    \/ AggScenario
    \/ AggEnd
    \/ PeriodsScenario
    \/ PeriodsEnd
    \/ PctVar
    \/ PctEnd

Spec == Init /\ [][Next]_vars

-----------------------------------------------------------------------------
(* Properties of the regional statistics loop *)

Regional == nb = "regional"

\* the progress of the loop: grows with every step of the cell
Measure ==
    CASE pc = "start"  -> 0
      [] pc = "for"    -> 16 * idx
      [] pc = "open"   -> 16 * idx + 1
      [] pc = "var"    -> 16 * idx + 1 + ki
      [] pc = "ar"     -> 16 * idx + 8
      [] pc = "area"   -> 16 * idx + 9
      [] pc = "except" -> 16 * idx + 10
      [] OTHER         -> 16 * (Len(fs) + 2)

\* the files seen so far are in ascending order (so each is there once) and
\* precede every file not yet seen; at the end of the loop they are all the
\* files of the directory
VisitOrder ==
    /\ \A i, j \in DOMAIN visited : i < j => StrLess(visited[i], visited[j])
    /\ Range(visited) \subseteq DOMAIN disk
    /\ \A f \in (DOMAIN disk) \ Range(visited) :
          \A i \in DOMAIN visited : StrLess(visited[i], f)
    /\ Len(visited) = (IF pc \in {"start", "for", "done"} THEN idx - 1 ELSE idx)
    /\ pc = "done" => Range(visited) = DOMAIN disk
    /\ pc \in {"start", "for", "open", "var", "ar", "area", "except", "done"}

\* C1: a calibration file whose processing raises adds no entry to mcmc_stats
\* and leaves the entries of the glaciers processed before unchanged (mcmc_stats
\* changes only in the step that stores a completely processed glacier, never
\* in a step into or out of the except clause); the loop goes on with the next
\* file, visits every file of the sorted listing exactly once and in that
\* order, and terminates (the except clause hands over to the for statement,
\* which takes the next file, and every step increases a bounded measure).
C1_FailedFileLeavesStatsAlone ==
    /\ [](Regional => VisitOrder)
    /\ [][Regional =>
            /\ (pc = "except" \/ pc' = "except") => mcmc_stats' = mcmc_stats
            /\ mcmc_stats' # mcmc_stats => (pc = "area" /\ pc' = "for")
            /\ pc = "except" => (pc' = "for" /\ idx' = idx + 1)
            /\ Measure' > Measure
            /\ Measure' <= 16 * (Len(fs') + 2)]_vars

\* a file failed after another one had been stored, and the loop has ended
C1_Witness ==
    /\ Regional /\ pc = "done"
    /\ Len(fs) = 2 /\ Len(mcmc_stats.keys) = 1 /\ Len(printed) = 1
    /\ origin[mcmc_stats.keys[1]] = fs[1]
    /\ printed[1] # mcmc_stats.keys[1]

\* the keys of a complete glacier record
CompleteRecord(gs) ==
    /\ DOMAIN gs = {"kp", "tbias", "ddfsnow", "ddfice", "mb_mwea", "ar", "area"}
    /\ \A k \in {"kp", "tbias", "ddfsnow", "ddfice", "mb_mwea"} :
          /\ DOMAIN gs[k] = {"chain_0", "chain_1", "chain_2", "rhat"}
          /\ \A c \in {"chain_0", "chain_1", "chain_2"} :
                DOMAIN gs[k][c] = {"min", "max", "median", "mean", "std", "iqr", "n_eff"}

\* C2: every entry of mcmc_stats is complete: the five variables, each with the
\* seven statistics for each of chain_0, chain_1, chain_2 and one rhat, and the
\* keys ar and area; no partially filled record is stored.
C2_StoredRecordsComplete ==
    Regional =>
        /\ Range(mcmc_stats.keys) = DOMAIN mcmc_stats.val
        /\ \A g \in DOMAIN mcmc_stats.val : CompleteRecord(mcmc_stats.val[g])

\* the loop has ended with one glacier stored while the record of the last
\* file, which failed, is partially filled
C2_Witness ==
    /\ Regional /\ pc = "done"
    /\ mcmc_stats.keys # <<>>
    /\ printed # <<>>
    /\ DOMAIN glac_stats # {} /\ ~CompleteRecord(glac_stats)

\* the 'MCMC' entry of the file the entry of glacier g was computed from
OwnPrms(g) == FileContent(disk[origin[g]]).obj["MCMC"]

\* C4: for every stored glacier and every variable k of ks the stored r-hat is
\* the one az.rhat call on the stack (chain_0, chain_1, chain_2) of variable k
\* of the glacier's own file, made once per variable; a glacier whose three
\* chains differ in length is not stored.
C4_RhatFromOwnThreeChains ==
    Regional =>
        /\ \A g \in DOMAIN mcmc_stats.val :
              \A k \in {"kp", "tbias", "ddfsnow", "ddfice", "mb_mwea"} :
                 LET own == OwnPrms(g)[k]
                 IN  /\ mcmc_stats.val[g][k]["rhat"] =
                           [fn |-> "az.rhat", var |-> k,
                            arg |-> <<own["chain_0"], own["chain_1"], own["chain_2"]>>]
                     /\ Len(own["chain_0"]) = Len(own["chain_1"])
                     /\ Len(own["chain_1"]) = Len(own["chain_2"])
        /\ pc \in {"ar", "area"} =>
              /\ Len(rhat_calls) = 5
              /\ \A i \in 1..5 :
                    /\ rhat_calls[i].var = ks[i]
                    /\ rhat_calls[i].arg =
                          <<prms_dict[ks[i]]["chain_0"], prms_dict[ks[i]]["chain_1"],
                            prms_dict[ks[i]]["chain_2"]>>

\* the loop has ended, a glacier is stored, and a file with chains of unequal
\* length was in the directory
C4_Witness ==
    /\ Regional /\ pc = "done"
    /\ mcmc_stats.keys # <<>>
    /\ \E f \in DOMAIN disk : disk[f] = "ragged"

\* C10: the acceptance-rate record of each chain of a stored glacier holds
\* exactly min, max, median, mean and std, each the named statistic of the
\* rolling average of that chain of the glacier's own file; iqr and n_eff are
\* not among them.
C10_ArStatistics ==
    Regional =>
        \A g \in DOMAIN mcmc_stats.val :
           \A c \in {"chain_0", "chain_1", "chain_2"} :
              LET rec  == mcmc_stats.val[g]["ar"][c]
                  roll == RollingAr(OwnPrms(g)["ar"][c]).val
              IN  /\ DOMAIN rec = {"min", "max", "median", "mean", "std"}
                  /\ rec["min"] = np_min(roll).val
                  /\ rec["max"] = np_max(roll).val
                  /\ rec["median"] = np_median(roll).val
                  /\ rec["mean"] = np_mean(roll).val
                  /\ rec["std"] = np_std(roll).val

\* a stored glacier whose rolling average is not constant, with a median that
\* differs from the mean
C10_Witness ==
    /\ Regional
    /\ \E g \in DOMAIN mcmc_stats.val :
          LET rec == mcmc_stats.val[g]["ar"]["chain_0"]
          IN  /\ rec["min"] < rec["max"]
              /\ rec["median"].num * rec["mean"].den # rec["mean"].num * rec["median"].den

-----------------------------------------------------------------------------
(* Properties of the rolling average *)

RECURSIVE SumRange(_, _, _)
\* x[lo] + ... + x[hi]
SumRange(x, lo, hi) == IF lo > hi THEN 0 ELSE x[lo] + SumRange(x, lo + 1, hi)

\* C3: rolling_ar is the 100-sample rolling average of the chain: for a chain
\* of L samples it has L - 99 elements, and element j is the arithmetic mean
\* of the samples j .. j+99 (rolling_ar is kept in units of 1/100, so the
\* element is the sum of these samples).
C3_RollingAverageOfEveryChain ==
    (nb = "rolling" /\ pc = "rolled") =>
        /\ Len(rolling_ar) = Len(ar_chain) - 99
        /\ \A j \in DOMAIN rolling_ar : rolling_ar[j] = SumRange(ar_chain, j, j + 99)

\* what holds of the code: the statement of C3 for the chains of at least 100
\* samples; a shorter, non-empty chain of L samples gives 101 - L elements,
\* each the sum of all its samples divided by 100
RollingAverageOfLongChain ==
    (nb = "rolling" /\ pc = "rolled") =>
        IF Len(ar_chain) >= 100
        THEN /\ Len(rolling_ar) = Len(ar_chain) - 99
             /\ \A j \in DOMAIN rolling_ar : rolling_ar[j] = SumRange(ar_chain, j, j + 99)
        ELSE /\ Len(rolling_ar) = 101 - Len(ar_chain)
             /\ \A j \in DOMAIN rolling_ar : rolling_ar[j] = SumRange(ar_chain, 1, Len(ar_chain))

-----------------------------------------------------------------------------
(* Properties of the flagging cell *)

RECURSIVE NoDuplicates(_)
NoDuplicates(s) ==
    IF s = <<>> THEN TRUE
    ELSE Head(s) \notin Range(Tail(s)) /\ NoDuplicates(Tail(s))

\* C9: after the flagging cell glacs_check has no duplicates, and a glacier of
\* mcmc_stats is in it exactly if its r-hat is a number above 1.1 for one of
\* mb_mwea, kp, tbias, ddfsnow; position j of the r-hat list and of glac_ns
\* name the same glacier; the r-hat of ddfice and a NaN r-hat flag nothing.
C9_FlaggedGlaciers ==
    (nb = "flag" /\ pc = "done") =>
        /\ NoDuplicates(glacs_check)
        /\ glac_ns = mcmc_stats.keys
        /\ \A j \in DOMAIN glac_ns :
              \A k \in Range(flag_ks) :
                 RhatList(mcmc_stats, k)[j] = mcmc_stats.val[glac_ns[j]][k]["rhat"]
        /\ Range(glacs_check) \subseteq DOMAIN mcmc_stats.val
        /\ \A g \in DOMAIN mcmc_stats.val :
              g \in Range(glacs_check) <=>
                 \E k \in {"mb_mwea", "kp", "tbias", "ddfsnow"} :
                    LET r == mcmc_stats.val[g][k]["rhat"]
                    IN  r.nan = FALSE /\ r.v > 11

\* the cell has flagged a glacier and has left alone one whose r-hat is 1.2 for
\* ddfice and NaN for tbias
C9_Witness ==
    /\ nb = "flag" /\ pc = "done"
    /\ glacs_check # <<>>
    /\ \E g \in DOMAIN mcmc_stats.val :
          /\ g \notin Range(glacs_check)
          /\ mcmc_stats.val[g]["ddfice"]["rhat"] = Num(12)
          /\ mcmc_stats.val[g]["tbias"]["rhat"] = NaN

-----------------------------------------------------------------------------
(* Properties of the load cell *)

\* the calibration file of glac_no exists / holds JSON with the key MCMC
HasFile == CalibrationFile(glac_no) \in DOMAIN disk

HasMCMC ==
    /\ HasFile
    /\ disk[CalibrationFile(glac_no)] \in {"ok1", "ok2"}

\* C7: the load cell prints exactly one of three messages: 'proceed' exactly
\* if the parameter file of glac_no exists and its JSON has the key MCMC, the
\* 'MCMC calibration parameters not found' warning exactly if the file exists
\* without that key, the 'does not exist' warning exactly if there is no such
\* file; the cell never raises.
C7_LoadCellMessages ==
    (nb = "load" /\ pc # "load") =>
        /\ pc = "done"
        /\ Len(printed) = 1
        /\ printed[1] = "proceed" <=> HasMCMC
        /\ printed[1] = "warning: MCMC calibration parameters not found"
              <=> (HasFile /\ ~HasMCMC)
        /\ printed[1] = "warning: calibration parameter data does not exist"
              <=> ~HasFile

\* the calibration file of a glacier whose number ends in 0 is there, with the
\* key MCMC, and the cell reports that it does not exist
LoadCellMissesFile ==
    (nb = "load" /\ pc = "done" /\ HasMCMC) => printed = <<"proceed">>

\* the calibration file is there and is not JSON: the cell has raised
LoadCellRaises == (nb = "load") => pc # "raised"

-----------------------------------------------------------------------------
(* Properties of the files *)

\* C8: no step of any cell writes, truncates or deletes a file: the set of
\* files and the content of each are the same after every step, while the
\* derived dictionaries mcmc_stats and results are variables of the notebook
C8_FilesUnchanged == [][disk' = disk]_vars

\* calibration files have been opened and read and mcmc_stats has been filled
C8_Witness ==
    /\ nb = "regional" /\ pc = "done"
    /\ Len(visited) = MaxFiles
    /\ mcmc_stats.keys # <<>>

-----------------------------------------------------------------------------
(* Properties of the ensemble aggregation *)

EnsVariables == {"runoff", "area", "mass"}

EnsStatistics == {"mean", "std", "min", "max"}

TwelveKeys == {ResultKey[v][st] : v \in EnsVariables, st \in EnsStatistics}

\* the stats files of scenario s that are on disk
FilesFound(s) == {SimPath(g, s) : g \in 1..MaxGcms} \cap DOMAIN disk

RECURSIVE SumOver(_, _)
\* the sum of x[r] over r in R
SumOver(R, x) ==
    IF R = {} THEN 0
    ELSE LET r == CHOOSE q \in R : TRUE IN x[r] + SumOver(R \ {r}, x)

\* the i-th annual value of a variable in an output file: the runoff of the
\* twelve months of the i-th calendar year, the area or mass at its end
AnnualValue(c, v, i) ==
    IF v = "runoff"
    THEN LET T == {t \in (12 * (i - 1) + 1)..(12 * i) : ~RunoffMonth(c, t).nan}
         IN  Num(SumOver(T, [t \in T |-> RunoffMonth(c, t).v]))
    ELSE IF v = "area" THEN AreaYear(c, i + 1)
    ELSE MassYear(c, i + 1)

\* row r of each of the three stacked arrays of scenario s holds the annual
\* values of the same file, and every file found has one row
SameRows(s) ==
    LET st == stacked[scenarios[s]]
        fl == st["runoff"].files
    IN  /\ Range(fl) = FilesFound(s)
        /\ Len(fl) = Cardinality(FilesFound(s))
        /\ \A v \in EnsVariables :
              /\ st[v].files = fl
              /\ Len(st[v].rows) = Len(fl)
              /\ \A r \in 1..Len(fl) :
                    /\ Len(st[v].rows[r]) = SimYears
                    /\ \A i \in 1..SimYears :
                          st[v].rows[r][i] = AnnualValue(disk[fl[r]], v, i)

\* entry i of the four lists of variable v is the statistic of the i-th annual
\* values of the rows, that is (SameRows) of the files of scenario s; skipNaN:
\* over the values that are not NaN (NaN without any), otherwise over all
\* values (NaN with a NaN in them)
StatsOfFiles(s, v, skipNaN) ==
    LET res  == results[scenarios[s]]
        k    == ResultKey[v]
        rows == stacked[scenarios[s]][v].rows
        F    == DOMAIN rows
    IN  \A i \in 1..SimYears :
           LET G   == {r \in F : ~rows[r][i].nan}
               n   == Cardinality(G)
               sum == SumOver(G, [r \in G |-> rows[r][i].v])
               sq  == SumOver(G, [r \in G |-> rows[r][i].v * rows[r][i].v])
           IN  IF G = {} \/ (~skipNaN /\ G # F)
               THEN \A st \in EnsStatistics : res[k[st]][i] = NaN
               ELSE /\ res[k.mean][i] = [nan |-> FALSE, num |-> sum, den |-> n]
                    /\ res[k.std][i] = [nan |-> FALSE, sqrt_num |-> n * sq - sum * sum,
                                        sqrt_den |-> n * n]
                    /\ ~res[k.min][i].nan /\ ~res[k.max][i].nan
                    /\ \E r \in G : rows[r][i].v = res[k.min][i].v
                    /\ \E r \in G : rows[r][i].v = res[k.max][i].v
                    /\ \A r \in G : /\ res[k.min][i].v <= rows[r][i].v
                                    /\ rows[r][i].v <= res[k.max][i].v

TwelveLists(s, skipNaN) ==
    /\ scenarios[s] \in DOMAIN results
    /\ DOMAIN results[scenarios[s]] = TwelveKeys
    /\ \A key \in TwelveKeys : Len(results[scenarios[s]][key]) = SimYears
    /\ \A v \in EnsVariables : StatsOfFiles(s, v, skipNaN)

\* the aggregation cell has ended, by exhausting the scenarios or by raising
AggregationEnded == nb = "ensemble" /\ pc # "aggregate"

\* the body of the scenario loop has been run for scenario s
Processed(s) == s < si \/ (s = si /\ AggregationEnded)

\* C5 as stated: the aggregation cell leaves twelve lists for each scenario,
\* each entry the statistic over all the files found for the scenario
C5_TwelveListsForEveryScenario ==
    AggregationEnded =>
        \A s \in 1..Len(scenarios) : SameRows(s) /\ TwelveLists(s, FALSE)

\* C5: for each scenario with at least one output file, reached by the loop,
\* results[scenario] holds exactly twelve lists, entry i of each the mean, the
\* standard deviation, the minimum or the maximum of the i-th annual values
\* that are not NaN of the files found for the scenario (NaN where no file
\* has a value), and row r of the three stacked arrays comes from the same
\* file; a scenario without output files makes np.vstack raise, which ends
\* the cell with results[scenario] = {} and the later scenarios not in results
C5_EnsembleStatistics ==
    nb = "ensemble" =>
        \A s \in 1..Len(scenarios) :
           IF ~Processed(s) THEN scenarios[s] \notin DOMAIN results
           ELSE IF FilesFound(s) = {}
           THEN results[scenarios[s]] = EmptyDict /\ si = s /\ AggregationEnded
           ELSE SameRows(s) /\ TwelveLists(s, TRUE) /\ si > s

\* all three scenarios are aggregated, one of them over two files of which
\* one has NaN values, so that a mean is taken over one file only
C5_Witness ==
    /\ AggregationEnded /\ si > Len(scenarios)
    /\ \E s \in 1..Len(scenarios) :
          /\ Cardinality(FilesFound(s)) = 2
          /\ \E i \in 1..SimYears :
                /\ results[scenarios[s]]["mean_area"][i] # NaN
                /\ results[scenarios[s]]["mean_area"][i].den = 1
          /\ \E i \in 1..SimYears :
                results[scenarios[s]]["min_mass"][i] # results[scenarios[s]]["max_mass"][i]

-----------------------------------------------------------------------------
(* Properties of the period averages *)

RECURSIVE FracSumOver(_, _)
\* the sum of the fractions x[i] over i in S
FracSumOver(S, x) ==
    IF S = {} THEN Frac(0, 1)
    ELSE LET i == CHOOSE q \in S : TRUE IN FracAdd(x[i], FracSumOver(S \ {i}, x))

\* the mean of the fractions x[i] over i in S
MeanOver(S, x) == FracMul(FracSumOver(S, x), Frac(1, Cardinality(S)))

\* the variance of the fractions x[i] over i in S: the mean of (x[i] - mean)^2
VarOver(S, x) ==
    LET m == MeanOver(S, x)
        d == [i \in S |-> FracAdd(x[i], FracMul(Frac(-1, 1), m))]
    IN  MeanOver(S, [i \in S |-> FracMul(d[i], d[i])])

\* the line of printed that reports the k-th entry of period_stats: each
\* scenario prints its name and then one line for each period
LineOf(k) == k + ((k - 1) \div Len(periods)) + 1

\* line k reports, for its scenario and period, the mean and the standard
\* deviation of mean_runoff over the values of the years of the period
ReportsPeriod(k) ==
    LET p  == period_stats[k]
        mr == results[p.scenario]["mean_runoff"]
        I  == {i \in DOMAIN mr \cap DOMAIN year :
                 p.period[1] <= year[i] /\ year[i] <= p.period[2]}
        v  == VarOver(I, mr)
        ln == printed[LineOf(k)]
    IN  /\ Cardinality(I) = 20
        /\ p.runoff_avg = MeanOver(I, mr)
        /\ p.runoff_sig = [nan |-> FALSE, sqrt_num |-> v.num, sqrt_den |-> v.den]
        /\ ln.period = p.period
        \* the printed numbers are the nearest integers
        /\ 2 * ln.avg.v * p.runoff_avg.den <= 2 * p.runoff_avg.num + p.runoff_avg.den
        /\ 2 * p.runoff_avg.num - p.runoff_avg.den <= 2 * ln.avg.v * p.runoff_avg.den
        /\ 4 * v.num < (2 * ln.sig.v + 1) * (2 * ln.sig.v + 1) * v.den
        /\ ln.sig.v = 0 \/ (2 * ln.sig.v - 1) * (2 * ln.sig.v - 1) * v.den <= 4 * v.num

-----------------------------------------------------------------------------
(* Properties of the keys of mcmc_stats *)

\* the file name without its directory
NameOf(f) == SubSeq(f, Len(DatPath) + 1, Len(f))

\* the position of the first dot of a name
FirstDot(s) == CHOOSE i \in DOMAIN s : s[i] = "." /\ \A j \in 1..(i - 1) : s[j] # "."

\* <reg>: the characters before the first dot of the file name
RegionOf(f) == SubSeq(NameOf(f), 1, FirstDot(NameOf(f)) - 1)

\* the first five characters after the first dot of the file name
FiveOf(f) == SubSeq(NameOf(f), FirstDot(NameOf(f)) + 1, FirstDot(NameOf(f)) + 5)

\* '<reg>.<ddddd>'
KeyOfName(f) == RegionOf(f) \o <<".">> \o FiveOf(f)

\* the file is named '<reg>.<ddddd>-modelprms_dict.json'
FiveDigitName(f) == NameOf(f) = KeyOfName(f) \o Suffix

\* the rows of the RGI table whose glacno equals g
RgiRows(g) == {i \in DOMAIN rgi_glacs : rgi_glacs[i].glacno = g}

\* the files of the directory that share their key with another file
SharedKey(f1, f2) == f1 # f2 /\ KeyOfName(f1) = KeyOfName(f2)

\* C11 as stated, its last sentence: of two files with the same key the one
\* later in sorted order has overwritten the entry of the earlier one when
\* the loop has ended
C11_LaterFileOverwrites ==
    (Regional /\ pc = "done") =>
        \A f1, f2 \in DOMAIN disk :
           (SharedKey(f1, f2) /\ StrLess(f1, f2)
              /\ KeyOfName(f1) \in DOMAIN mcmc_stats.val) => origin[KeyOfName(f1)] = f2

\* C11: the entry of a calibration file is stored under '<reg>.<ddddd>', the
\* region and the first five characters after the first dot of its name (the
\* whole glacier number of a file named '<reg>.<ddddd>-modelprms_dict.json'),
\* with the Area of the row of the RGI table whose glacno equals that key; a
\* glacier absent from the RGI table is not stored, and a file that is not
\* stored has its key printed; two files have the same key exactly when region
\* and five characters agree, and then a later file that is processed without
\* error replaces the entry of the earlier one under the same key, while a
\* later file that raises leaves the earlier entry in place (entries change
\* only in the storing step, which sets the entry of the key of its file)
C11_KeysAndAreas ==
    /\ \A f1, f2 \in FileNames :
          /\ ~ParseGlacno(f1).raised
          /\ ParseGlacno(f1).val = KeyOfName(f1)
          /\ (ParseGlacno(f1).val = ParseGlacno(f2).val)
                <=> (RegionOf(f1) = RegionOf(f2) /\ FiveOf(f1) = FiveOf(f2))
    /\ [](Regional =>
            /\ \A g \in DOMAIN mcmc_stats.val :
                  /\ origin[g] \in Range(visited)
                  /\ g = KeyOfName(origin[g])
                  /\ FiveDigitName(origin[g]) => NameOf(origin[g]) = g \o Suffix
                  /\ RgiRows(g) # {}
                  /\ \A i \in RgiRows(g) : mcmc_stats.val[g]["area"] = rgi_glacs[i].Area
            /\ pc = "done" =>
                  \A f \in DOMAIN disk :
                     /\ RgiRows(KeyOfName(f)) = {} => KeyOfName(f) \notin DOMAIN mcmc_stats.val
                     /\ \/ KeyOfName(f) \in DOMAIN mcmc_stats.val
                        \/ KeyOfName(f) \in Range(printed))
    /\ [][Regional =>
            /\ (pc = "area" /\ pc' = "for") =>
                  /\ origin' = Put(origin, KeyOfName(fs[idx]), fs[idx])
                  /\ DOMAIN mcmc_stats'.val = DOMAIN mcmc_stats.val \cup {KeyOfName(fs[idx])}
                  /\ mcmc_stats'.val[KeyOfName(fs[idx])] = glac_stats'
                  /\ \A g \in DOMAIN mcmc_stats.val \ {KeyOfName(fs[idx])} :
                        mcmc_stats'.val[g] = mcmc_stats.val[g]
                  /\ KeyOfName(fs[idx]) \in DOMAIN mcmc_stats.val =>
                        /\ StrLess(origin[KeyOfName(fs[idx])], fs[idx])
                        /\ mcmc_stats'.keys = mcmc_stats.keys
            /\ ~(pc = "area" /\ pc' = "for") =>
                  mcmc_stats' = mcmc_stats /\ origin' = origin]_vars

\* the loop has ended; the entry of glacier 1.00013, stored from the file of
\* that name, has been replaced by the different entry of a later file whose
\* name has the same first five digits
C11_Witness ==
    /\ Regional /\ pc = "done"
    /\ \E f1, f2 \in DOMAIN disk :
          /\ SharedKey(f1, f2) /\ StrLess(f1, f2)
          /\ FiveDigitName(f1) /\ ~FiveDigitName(f2)
          /\ disk[f1] = "ok1" /\ disk[f2] = "ok2"
          /\ printed = <<>>
          /\ KeyOfName(f1) \in DOMAIN origin
          /\ origin[KeyOfName(f1)] = f2
          /\ mcmc_stats.keys = <<KeyOfName(f1)>>
          /\ mcmc_stats.val[KeyOfName(f1)]["area"] = 250

-----------------------------------------------------------------------------
(* Properties of the years of the ensemble lists.  Python index i is        *)
(* position i + 1 of a sequence.                                             *)

\* the calendar year of the t-th month of a monthly series that starts in
\* January of StartYear
CalendarYear(t) == StartYear + ((t - 1) \div 12)

\* the monthly series of the file covers n whole calendar years and its
\* annual series have n + 1 values
WholeYears(c, n) ==
    /\ Len(glac_runoff_monthly(c)) = 12 * n
    /\ Len(glac_area_annual(c)) = n + 1
    /\ Len(glac_mass_annual(c)) = n + 1
    /\ Len(ds_year(c)) = n + 1

\* the rows of file c in the three stacked arrays hold, at Python index i, the
\* runoff of the twelve months of calendar year year[i] (a NaN among them
\* counts as 0) and the area and mass of the annual index i + 1, the value of
\* the year after year[i], that is of the end of model year year[i]
RowsByYear(c, ro, ar, ma) ==
    \A i \in 0..(SimYears - 1) :
       LET T == (12 * i + 1)..(12 * i + 12)
           G == {t \in T : ~RunoffMonth(c, t).nan}
       IN  /\ \A t \in T : CalendarYear(t) = year[i + 1]
           /\ ro[i + 1] = Num(SumOver(G, [t \in G |-> RunoffMonth(c, t).v]))
           /\ ar[i + 1] = glac_area_annual(c)[(i + 1) + 1]
           /\ ma[i + 1] = glac_mass_annual(c)[(i + 1) + 1]
           /\ ds_year(c)[i + 1] = year[i + 1]
           /\ ds_year(c)[(i + 1) + 1] = year[i + 1] + 1

\* C12: the files of an aggregated scenario cover N whole calendar years with
\* N + 1 annual values; runoff value i is the sum of the twelve monthly values
\* of calendar year i (NaN skipped), area and mass value i are the annual
\* values at index i + 1, year is the annual year axis without its last
\* element, and year and the twelve lists of the scenario all have length N,
\* index i belonging to the same model year in each
C12_ListsAlignedByYear ==
    nb = "ensemble" =>
        \A s \in 1..Len(scenarios) :
           (Processed(s) /\ FilesFound(s) # {}) =>
              LET st  == stacked[scenarios[s]]
                  res == results[scenarios[s]]
              IN  /\ Len(year) = SimYears
                  /\ \A key \in DOMAIN res : Len(res[key]) = Len(year)
                  /\ {"mean_runoff", "mean_area", "mean_mass"} \subseteq DOMAIN res
                  /\ \A r \in DOMAIN st["runoff"].files :
                        LET c == disk[st["runoff"].files[r]]
                        IN  /\ WholeYears(c, SimYears)
                            /\ year = SubSeq(ds_year(c), 1, Len(ds_year(c)) - 1)
                            /\ RowsByYear(c, st["runoff"].rows[r], st["area"].rows[r],
                                          st["mass"].rows[r])

\* the three scenarios are aggregated, one of them over two files; the area of
\* a file differs between the beginning and the end of the first model year,
\* and year runs from 2000 to 2100
C12_Witness ==
    /\ AggregationEnded /\ si > Len(scenarios)
    /\ year # <<>> /\ year[1] = 2000 /\ year[Len(year)] = 2100
    /\ \E s \in 1..Len(scenarios) :
          /\ Cardinality(FilesFound(s)) = 2
          /\ \E f \in FilesFound(s) :
                /\ glac_area_annual(disk[f])[1] # glac_area_annual(disk[f])[2]
                /\ results[scenarios[s]]["max_area"][1].v < glac_area_annual(disk[f])[1].v

-----------------------------------------------------------------------------
(* Properties of the n_eff percentages *)

\* the chains of variable k of glacier g whose n_eff is a number
ChainsWithNeff(g, k) == {c \in ChainKeys : ~mcmc_stats.val[g][k][c]["n_eff"].nan}

\* the n_eff of variable k of glacier g, averaged over its chains (those with
\* a number), is at least 100
EnoughSamples(g, k) ==
    LET C == ChainsWithNeff(g, k)
    IN  /\ C # {}
        /\ SumOver(C, [c \in C |-> mcmc_stats.val[g][k][c]["n_eff"].v])
              >= 100 * Cardinality(C)

\* pct is 100 * count / total rounded to the nearest integer (to the even one
\* of two that are equally near)
RoundedShare(pct, count, total) ==
    /\ 2 * (pct * total - 100 * count) <= total
    /\ 2 * (100 * count - pct * total) <= total
    /\ (2 * (pct * total - 100 * count) = total
          \/ 2 * (100 * count - pct * total) = total) => pct % 2 = 0

\* C13: for each of mb_mwea, kp, tbias, ddfsnow, in this order, the annotated
\* pct is the share, in percent and rounded to an integer, of the glaciers of
\* mcmc_stats whose n_eff averaged over chain_0..chain_2 is at least 100, and
\* lies in 0..100; with an empty mcmc_stats the cell raises (division by zero)
\* before it has annotated any percentage, and it raises in no other case
C13_ShareOfEnoughSamples ==
    nb = "pct" =>
        LET total == Len(mcmc_stats.keys)
        IN  /\ \A j \in DOMAIN labels :
                  j <= 4 =>
                     LET k     == <<"mb_mwea", "kp", "tbias", "ddfsnow">>[j]
                         count == Cardinality({g \in Range(mcmc_stats.keys) :
                                                  EnoughSamples(g, k)})
                     IN  /\ labels[j].k = k
                         /\ labels[j].pct \in 0..100
                         /\ RoundedShare(labels[j].pct, count, total)
            /\ total = 0 => (labels = <<>> /\ pc \in {"pctloop", "raised"})
            /\ pc = "raised" => (total = 0 /\ labels = <<>>)
            /\ pc = "done" => Len(labels) = 5

\* the cell has run over three glaciers; a percentage was rounded (one or two
\* of the three glaciers have enough samples), and a glacier whose average is
\* exactly 100 counts
C13_Witness ==
    /\ nb = "pct" /\ pc = "done"
    /\ Len(mcmc_stats.keys) = 3
    /\ \E j \in 1..4 : labels[j].pct \in {33, 67}
    /\ \E g \in Range(mcmc_stats.keys) :
          /\ EnoughSamples(g, "kp")
          /\ \A c \in ChainKeys : mcmc_stats.val[g]["kp"][c]["n_eff"] = Num(100)

\* the cell has met an empty mcmc_stats and has raised
PctCellRaisedOnEmpty ==
    nb = "pct" /\ pc = "raised" /\ mcmc_stats.keys = <<>> /\ labels = <<>>

====
